---------------------------- MODULE Spec2Model ----------------------------
(***************************************************************************)
(* Model of main.py: the Streamlit page "Cab Ride Price Predictor" with    *)
(* its two paths, load_model_and_predict (lines 6-49) and calculate_fare   *)
(* (lines 51-73), and the script body that drives them (lines 76-152).     *)
(*                                                                         *)
(* Streamlit runs the script from top to bottom once per user interaction. *)
(* One action of the model is one such script run.  The outputs of a run   *)
(* (messages, price, exception) are those of the latest run only.          *)
(*                                                                         *)
(* Python floats are modelled as exact rationals [n, d] in lowest terms    *)
(* with d > 0: the binary representation error of a float is outside the   *)
(* model.                                                                  *)
(***************************************************************************)
EXTENDS Integers, Sequences, FiniteSets, TLC

VARIABLES
    present,        \* the artifact files that exist on storage
    run_files,      \* the artifact files that existed when the latest run reached line 102
    cab_classes,    \* classes_ of the stored cab-type encoder (sorted labels)
    ride_classes,   \* classes_ of the stored ride-name encoder (sorted labels)
    ride_widgets,   \* values of the predictor widgets (lines 79-100)
    voo_widgets,    \* values of the Voo calculator widgets (lines 115-143)
    button,         \* the button that triggered the latest run
    ride_name,      \* the script variable ride_name after lines 86-91
    price,          \* the script variable price after line 104
    voo_price,      \* the script variable voo_price after line 146
    fare_locals,    \* trip_fare and grand_total of the latest calculate_fare call
    st_error,       \* the st.error messages of the latest run, in order
    st_success,     \* the st.success messages of the latest run, in order
    exception,      \* the exception that ended the latest run, or "none"
    predict_calls,  \* the arguments of each model.predict call of the latest run
    loads_run,      \* the artifacts joblib.load returned in the latest run, in order
    loaded_before   \* the artifacts joblib.load returned in earlier runs

vars == << present, run_files, cab_classes, ride_classes, ride_widgets, voo_widgets,
           button, ride_name, price, voo_price, fare_locals, st_error,
           st_success, exception, predict_calls, loads_run, loaded_before >>

---------------------------------------------------------------------------
(* Float arithmetic, as exact rationals.                                   *)

Abs(x) == IF x < 0 THEN -x ELSE x

RECURSIVE GCD(_, _)
GCD(a, b) == IF b = 0 THEN a ELSE GCD(b, a % b)

\* The rational n/d (d > 0) in lowest terms.
R(n, d) == LET g == GCD(Abs(n), d) IN [n |-> n \div g, d |-> d \div g]

FromInt(i) == [n |-> i, d |-> 1]

One == FromInt(1)

Zero == FromInt(0)

RMul(a, b) ==
    LET g1 == GCD(Abs(a.n), b.d)
        g2 == GCD(Abs(b.n), a.d)
    IN  [n |-> (a.n \div g1) * (b.n \div g2), d |-> (a.d \div g2) * (b.d \div g1)]

RAdd(a, b) ==
    LET g == GCD(a.d, b.d)
        l == (a.d \div g) * b.d
    IN  R(a.n * (l \div a.d) + b.n * (l \div b.d), l)

RNeg(a) == [n |-> -a.n, d |-> a.d]

RSub(a, b) == RAdd(a, RNeg(b))

\* a <= b and a < b, by the sign of the difference.
RLe(a, b) == RSub(a, b).n <= 0

RLt(a, b) == RSub(a, b).n < 0

\* Python's max(a, b).
RMax(a, b) == IF RLt(a, b) THEN b ELSE a

\* Python's round(x, 2): to the nearest hundredth, a tie to the even one.
\* The quotient is taken digit by digit.
Round2(x) ==
    LET a  == Abs(x.n)
        q  == a \div x.d
        r0 == a % x.d
        d1 == (r0 * 10) \div x.d
        r1 == (r0 * 10) % x.d
        d2 == (r1 * 10) \div x.d
        r2 == (r1 * 10) % x.d
        c  == q * 100 + d1 * 10 + d2
        up == IF 2 * r2 > x.d THEN 1
              ELSE IF 2 * r2 = x.d THEN c % 2
              ELSE 0
        s  == IF x.n < 0 THEN -1 ELSE 1
    IN  R(s * (c + up), 100)

---------------------------------------------------------------------------
(* calculate_fare, lines 51-73.  An argument record a holds the 22         *)
(* parameters under their names.                                           *)

\* The reference points of the adjustments, lines 64-69.
RefTemp == 25
RefHumidity == 50
RefClouds == 50
RefWind == 10
RefPressure == 1013
RefPickup == 50

\* Line 56.
BaseTripFare_noFloor(a) ==
    RAdd(RAdd(a.base_fare, RMul(a.waiting_time_rate, a.duration)),
         RMul(a.distance, a.distance_rate))

BaseTripFare_minusDistance(a) ==
    RMax(RSub(RAdd(a.base_fare, RMul(a.waiting_time_rate, a.duration)),
              RMul(a.distance, a.distance_rate)),
         a.minimum_fare)

BaseTripFare(a) ==
    RMax(RAdd(RAdd(a.base_fare, RMul(a.waiting_time_rate, a.duration)),
              RMul(a.distance, a.distance_rate)),
         a.minimum_fare)

\* Line 59.
ApplySurge(t, a) == RMul(t, a.surge_multiplier)

\* Lines 62-63.
ApplyRain_fixedRate(t, a) ==
    IF a.rain THEN RMul(t, R(983, 1000)) ELSE t

ApplyRain_minus(t, a) ==
    IF a.rain THEN RMul(t, RSub(One, a.rain_factor)) ELSE t

ApplyRain(t, a) ==
    IF a.rain THEN RMul(t, RAdd(One, a.rain_factor)) ELSE t

\* One line of lines 64-69: trip_fare *= (1 + (value - ref) * factor).
Adjust(t, value, ref, factor) ==
    RMul(t, RAdd(One, RMul(RSub(value, FromInt(ref)), factor)))

\* trip_fare after line 69.
TripFare_floored(a) ==
    RMax(Adjust(Adjust(Adjust(Adjust(Adjust(Adjust(
             ApplyRain(ApplySurge(BaseTripFare(a), a), a),
             a.temp, RefTemp, a.temp_factor),
             a.humidity, RefHumidity, a.humidity_factor),
             a.clouds, RefClouds, a.clouds_factor),
             a.wind, RefWind, a.wind_factor),
             a.pressure, RefPressure, a.pressure_factor),
             a.pickup_hour_counts, RefPickup, a.pickup_factor),
         a.minimum_fare)

TripFare(a) ==
    LET t0 == BaseTripFare(a)
        t1 == ApplySurge(t0, a)
        t2 == ApplyRain(t1, a)
        t3 == Adjust(t2, a.temp, RefTemp, a.temp_factor)
        t4 == Adjust(t3, a.humidity, RefHumidity, a.humidity_factor)
        t5 == Adjust(t4, a.clouds, RefClouds, a.clouds_factor)
        t6 == Adjust(t5, a.wind, RefWind, a.wind_factor)
        t7 == Adjust(t6, a.pressure, RefPressure, a.pressure_factor)
        t8 == Adjust(t7, a.pickup_hour_counts, RefPickup, a.pickup_factor)
    IN  t8

\* grand_total, line 72.
GrandTotal_feeFirst(a) ==
    LET b == [a EXCEPT !.base_fare = RAdd(a.base_fare, a.booking_fee)]
    IN  TripFare(b)

GrandTotal(a) == RAdd(TripFare(a), a.booking_fee)

\* The returned value, line 73.
calculate_fare(a) == Round2(GrandTotal(a))

---------------------------------------------------------------------------
(* load_model_and_predict, lines 6-49.                                     *)

ModelFile == "rf_model.joblib"
CabEncoderFile == "cab_type_encoder.joblib"
RideEncoderFile == "ride_name_encoder.joblib"

Artifacts == {ModelFile, CabEncoderFile, RideEncoderFile}

None == "None"

ErrFilesMissing == "Required model files not found."
ErrRideMissing == "Ride encoder file not found."

Range(f) == {f[i] : i \in DOMAIN f}

\* A Python value that is a float, None, or not assigned.
Float(x) == [kind |-> "float", val |-> x]
NoneValue == [kind |-> "None", val |-> Zero]
Unset == [kind |-> "unset", val |-> Zero]

\* Lines 31-33: the joblib.load calls that return, in order; the first
\* file that is absent raises FileNotFoundError and ends the list.
Loaded_globalRideEncoder(visible) ==
    IF ModelFile \notin visible THEN << >>
    ELSE IF CabEncoderFile \notin visible THEN << ModelFile >>
    ELSE << ModelFile, CabEncoderFile >>

Loaded(visible) ==
    IF ModelFile \notin visible THEN << >>
    ELSE IF CabEncoderFile \notin visible THEN << ModelFile >>
    ELSE IF RideEncoderFile \notin visible THEN << ModelFile, CabEncoderFile >>
    ELSE << ModelFile, CabEncoderFile, RideEncoderFile >>

\* LabelEncoder.transform([label])[0]: the 0-based place of the label in
\* classes_.  The caller checks that the label is one of classes_.
Transform(classes, label) ==
    FromInt((CHOOSE i \in DOMAIN classes : classes[i] = label) - 1)

\* Lines 40-41: the one sample handed to the model.  The bool rain reaches
\* the model as 0.0 or 1.0.
Features_swapped(w, cab_type_encoded, ride_name_encoded) ==
    << w.distance, ride_name_encoded, w.surge_multiplier, cab_type_encoded,
       w.temp, w.clouds, w.pressure, IF w.rain THEN One ELSE Zero,
       w.humidity, w.wind, w.pickup_hour_counts, w.hour, w.day >>

Features(w, cab_type_encoded, ride_name_encoded) ==
    << w.distance, cab_type_encoded, w.surge_multiplier, ride_name_encoded,
       w.temp, w.clouds, w.pressure, IF w.rain THEN One ELSE Zero,
       w.humidity, w.wind, w.pickup_hour_counts, w.hour, w.day >>

\* The stored regression model: one prediction per sample of X.  The model
\* is opaque to the program; this one weighs the feature in place i by i/8.
RECURSIVE WeightedSum(_, _)
WeightedSum(s, i) ==
    IF i = 0 THEN Zero ELSE RAdd(WeightedSum(s, i - 1), RMul(FromInt(i), s[i]))

RfModel(X) == [i \in DOMAIN X |-> RMul(R(1, 8), WeightedSum(X[i], Len(X[i])))]

\* Lines 30-46, the body of the try: what it raised, what it returned, the
\* loads that returned and the model.predict calls made.
TryBody(visible, cabc, ridec, w, rname) ==
    LET loads == Loaded(visible)
    IN  IF Len(loads) < 3
        THEN [raised |-> "FileNotFoundError", ret |-> Unset,
              loads |-> loads, calls |-> << >>]
        ELSE IF w.cab_type \notin Range(cabc) \/ rname \notin Range(ridec)
        THEN [raised |-> "ValueError", ret |-> Unset,
              loads |-> loads, calls |-> << >>]
        ELSE LET X == << Features(w, Transform(cabc, w.cab_type),
                                  Transform(ridec, rname)) >>
             IN  [raised |-> "none", ret |-> Float(RfModel(X)[1]),
                  loads |-> loads, calls |-> << X >>]

\* Line 47: the exceptions the except clause catches.
Caught_nothing(raised) == FALSE

Caught(raised) == raised = "FileNotFoundError"

\* The whole call: lines 29-49.
load_model_and_predict(visible, cabc, ridec, w, rname) ==
    LET b == TryBody(visible, cabc, ridec, w, rname)
    IN  IF b.raised # "none" /\ Caught(b.raised)
        THEN [b EXCEPT !.raised = "none", !.ret = NoneValue]
                 @@ [errors |-> << ErrFilesMissing >>]
        ELSE b @@ [errors |-> << >>]

---------------------------------------------------------------------------
(* The widget values the model draws from, each inside its widget's range. *)

MaxSurge == 2
MaxQuarterHours == 1

DistanceValues == {R(1, 10), FromInt(5), FromInt(10)}
DurationValues == {FromInt(1)} \cup {FromInt(15 * k) : k \in 1..MaxQuarterHours}
SurgeValues == {FromInt(k) : k \in 1..MaxSurge}

\* booking_fee, base_fare, waiting_time_rate, distance_rate, minimum_fare:
\* the defaults of lines 129-133, all rates zero, and other rates.
DefaultRates ==
    [booking_fee |-> R(202, 100), base_fare |-> R(245, 100),
     waiting_time_rate |-> R(17, 100), distance_rate |-> R(73, 100),
     minimum_fare |-> FromInt(5)]

RateProfiles ==
    {DefaultRates,
     [booking_fee |-> Zero, base_fare |-> Zero, waiting_time_rate |-> Zero,
      distance_rate |-> Zero, minimum_fare |-> Zero],
     [booking_fee |-> R(3, 2), base_fare |-> FromInt(3),
      waiting_time_rate |-> R(1, 4), distance_rate |-> FromInt(1),
      minimum_fare |-> FromInt(4)]}

\* The weather and demand of lines 117-123: the reference point of every
\* adjustment, one dimension off its reference point, or two.
ReferenceWeather ==
    [temp_voo |-> FromInt(25), humidity_voo |-> FromInt(50),
     clouds_voo |-> FromInt(50), wind_voo |-> FromInt(10),
     pressure_voo |-> FromInt(1013), pickup_hour_counts_voo |-> FromInt(50)]

WeatherProfiles ==
    {ReferenceWeather,
     [ReferenceWeather EXCEPT !.temp_voo = FromInt(50)],
     [ReferenceWeather EXCEPT !.humidity_voo = FromInt(100)],
     [ReferenceWeather EXCEPT !.clouds_voo = FromInt(75)],
     [ReferenceWeather EXCEPT !.wind_voo = FromInt(60)],
     [ReferenceWeather EXCEPT !.pressure_voo = FromInt(1063)],
     [ReferenceWeather EXCEPT !.pickup_hour_counts_voo = FromInt(250)],
     [ReferenceWeather EXCEPT !.temp_voo = FromInt(50),
                              !.pressure_voo = FromInt(1063)]}

\* The adjustment coefficients of lines 128 and 137-143: the defaults, all
\* zero, zero but for the default rain factor, the lower end of every
\* range, and the upper end of every range.
DefaultFactors ==
    [temp_factor |-> R(24, 1000), humidity_factor |-> R(11, 1000),
     clouds_factor |-> R(2, 100), wind_factor |-> R(13, 1000),
     pressure_factor |-> R(-22, 1000), pickup_factor |-> R(5, 10000),
     rain_factor |-> R(-17, 1000)]

ZeroFactors ==
    [temp_factor |-> Zero, humidity_factor |-> Zero, clouds_factor |-> Zero,
     wind_factor |-> Zero, pressure_factor |-> Zero, pickup_factor |-> Zero,
     rain_factor |-> Zero]

FactorProfiles ==
    {DefaultFactors,
     ZeroFactors,
     [ZeroFactors EXCEPT !.rain_factor = R(-17, 1000)],
     [temp_factor |-> FromInt(-1), humidity_factor |-> FromInt(-1),
      clouds_factor |-> FromInt(-1), wind_factor |-> FromInt(-1),
      pressure_factor |-> FromInt(-1), pickup_factor |-> FromInt(-1),
      rain_factor |-> FromInt(-1)],
     [temp_factor |-> R(1, 10), humidity_factor |-> R(1, 10),
      clouds_factor |-> R(1, 10), wind_factor |-> R(1, 10),
      pressure_factor |-> R(1, 10), pickup_factor |-> R(23, 100),
      rain_factor |-> FromInt(1)]}

TripValues ==
    [distance_voo : DistanceValues, duration_voo : DurationValues,
     surge_multiplier_voo : SurgeValues, rain_voo : BOOLEAN]

VooSpace ==
    {t @@ r @@ w @@ f : t \in TripValues, r \in RateProfiles,
                        w \in WeatherProfiles, f \in FactorProfiles}

\* The values the widgets of lines 115-143 show on the first run.
VooDefaults ==
    [distance_voo |-> FromInt(5), duration_voo |-> FromInt(15),
     surge_multiplier_voo |-> FromInt(1), rain_voo |-> FALSE]
        @@ DefaultRates @@ ReferenceWeather @@ DefaultFactors

\* The ranges of the widgets of lines 115-143.
InRange(x, lo, hi) == RLe(lo, x) /\ RLe(x, hi)

InVooRanges(w) ==
    /\ InRange(w.distance_voo, R(1, 10), FromInt(1000))
    /\ InRange(w.duration_voo, FromInt(1), FromInt(120))
    /\ InRange(w.pickup_hour_counts_voo, Zero, FromInt(100000))
    /\ InRange(w.temp_voo, FromInt(-50), FromInt(50))
    /\ InRange(w.humidity_voo, Zero, FromInt(100))
    /\ InRange(w.clouds_voo, Zero, FromInt(100))
    /\ InRange(w.wind_voo, Zero, FromInt(100))
    /\ InRange(w.pressure_voo, FromInt(900), FromInt(1100))
    /\ InRange(w.surge_multiplier_voo, FromInt(1), FromInt(5))
    /\ InRange(w.pickup_factor, FromInt(-1), R(23, 100))
    /\ RLe(Zero, w.booking_fee) /\ RLe(Zero, w.base_fare)
    /\ RLe(Zero, w.waiting_time_rate) /\ RLe(Zero, w.distance_rate)
    /\ RLe(Zero, w.minimum_fare)
    /\ InRange(w.temp_factor, FromInt(-1), R(1, 10))
    /\ InRange(w.humidity_factor, FromInt(-1), R(1, 10))
    /\ InRange(w.clouds_factor, FromInt(-1), R(1, 10))
    /\ InRange(w.wind_factor, FromInt(-1), R(1, 10))
    /\ InRange(w.pressure_factor, FromInt(-1), R(1, 10))
    /\ InRange(w.rain_factor, FromInt(-1), FromInt(1))

\* Lines 146-151: the arguments of calculate_fare, from the widgets.
VooArgs(w) ==
    [distance |-> w.distance_voo, duration |-> w.duration_voo,
     booking_fee |-> w.booking_fee, base_fare |-> w.base_fare,
     waiting_time_rate |-> w.waiting_time_rate,
     distance_rate |-> w.distance_rate, minimum_fare |-> w.minimum_fare,
     surge_multiplier |-> w.surge_multiplier_voo, rain |-> w.rain_voo,
     temp |-> w.temp_voo, humidity |-> w.humidity_voo,
     clouds |-> w.clouds_voo, wind |-> w.wind_voo,
     pressure |-> w.pressure_voo,
     pickup_hour_counts |-> w.pickup_hour_counts_voo,
     temp_factor |-> w.temp_factor, humidity_factor |-> w.humidity_factor,
     clouds_factor |-> w.clouds_factor, wind_factor |-> w.wind_factor,
     pressure_factor |-> w.pressure_factor,
     pickup_factor |-> w.pickup_factor, rain_factor |-> w.rain_factor]

\* The predictor widgets of lines 79-100; ride_sel is the label selected in
\* the Ride Type box, cab_type one of the two options of line 93.  hour and
\* day start from the clock.
CabTypes == {"Uber", "Lyft"}

RideDefaults ==
    [distance |-> FromInt(5), surge_multiplier |-> FromInt(1), rain |-> FALSE,
     temp |-> FromInt(25), humidity |-> FromInt(50), clouds |-> FromInt(50),
     wind |-> FromInt(10), pressure |-> FromInt(1013),
     pickup_hour_counts |-> FromInt(50), hour |-> FromInt(9),
     day |-> FromInt(15)]

RideProfiles ==
    {RideDefaults,
     [distance |-> R(7, 2), surge_multiplier |-> FromInt(2), rain |-> TRUE,
      temp |-> FromInt(18), humidity |-> FromInt(80), clouds |-> FromInt(30),
      wind |-> FromInt(12), pressure |-> FromInt(1000),
      pickup_hour_counts |-> FromInt(120), hour |-> FromInt(23),
      day |-> FromInt(28)]}

\* The label vocabularies a stored encoder may hold.
CabVocabularies == {<< "Lyft", "Uber" >>, << "lyft", "uber" >>}
RideVocabularies == {<< "Black", "Shared", "UberX" >>}

---------------------------------------------------------------------------
(* One run of the script, lines 76-152.                                    *)

\* Lines 86-91: the ride encoder is loaded and the Ride Type box filled
\* from it, or the error is shown and ride_name is None.
RideStartup(files, rw) ==
    IF RideEncoderFile \in files
    THEN [ride_name |-> rw.ride_sel, errors |-> << >>,
          loads |-> << RideEncoderFile >>]
    ELSE [ride_name |-> None, errors |-> << ErrRideMissing >>,
          loads |-> << >>]

NotCalled ==
    [raised |-> "none", ret |-> Unset, loads |-> << >>, calls |-> << >>,
     errors |-> << >>]

NoLocals == [called |-> FALSE, trip_fare |-> Zero, grand_total |-> Zero]

\* Lines 145-152, reached when no exception ended the run before: calc
\* tells whether the Calculate Voo Fare button triggered the run.  The
\* record is what the run leaves behind.
VooSection(s, p, shown, calc, args) ==
    [ride_name |-> s.ride_name,
     price |-> p.ret,
     voo_price |-> IF calc THEN Float(calculate_fare(args)) ELSE Unset,
     fare_locals |-> IF calc
                     THEN [called |-> TRUE, trip_fare |-> TripFare(args),
                           grand_total |-> GrandTotal(args)]
                     ELSE NoLocals,
     st_error |-> s.errors \o p.errors,
     st_success |-> IF calc
                    THEN Append(shown, [label |-> "Voo's Current Fare",
                                        amount |-> calculate_fare(args)])
                    ELSE shown,
     exception |-> p.raised,
     predict_calls |-> p.calls,
     loads_run |-> s.loads \o p.loads]

\* Lines 106-152, after the call of line 104 gave p.  An exception that
\* escapes line 104 ends the run: nothing below it is executed.
AfterPredict(pressed, vw, s, p) ==
    VooSection(s, p,
               IF p.raised = "none" /\ p.ret.kind = "float"
               THEN << [label |-> "Predicted Price",
                        amount |-> Round2(p.ret.val)] >>
               ELSE << >>,
               pressed = "calc" /\ p.raised = "none",
               VooArgs(vw))

\* Lines 102-152, after lines 86-91 gave s.
AfterStartup(pressed, rw, vw, s, visible, cabc, ridec) ==
    AfterPredict(pressed, vw, s,
                 IF pressed = "predict" /\ s.ride_name # None
                 THEN load_model_and_predict(visible, cabc, ridec, rw,
                                             s.ride_name)
                 ELSE NotCalled)

\* What a run leaves behind.  pressed is the button that triggered it
\* ("predict", "calc" or "none"); files are the artifacts on storage when
\* the script starts and visible those still there when
\* load_model_and_predict runs.
RunOutcome(pressed, rw, vw, files, visible, cabc, ridec) ==
    AfterStartup(pressed, rw, vw, RideStartup(files, rw), visible, cabc, ridec)

\* The script variables and the page take the outcome o of a run.
Leaves(o) ==
    /\ ride_name' = o.ride_name
    /\ price' = o.price
    /\ voo_price' = o.voo_price
    /\ fare_locals' = o.fare_locals
    /\ st_error' = o.st_error
    /\ st_success' = o.st_success
    /\ exception' = o.exception
    /\ predict_calls' = o.predict_calls
    /\ loads_run' = o.loads_run

\* A run triggered by pressed with the widgets at rw and vw.
Run(pressed, rw, vw, visible) ==
    /\ button' = pressed
    /\ ride_widgets' = rw
    /\ voo_widgets' = vw
    /\ present' = visible
    /\ run_files' = visible
    /\ Leaves(RunOutcome(pressed, rw, vw, present, visible,
                         cab_classes, ride_classes))
    /\ loaded_before' = loaded_before \cup Range(loads_run)
    /\ UNCHANGED << cab_classes, ride_classes >>

\* The outcome o of the first run.
Left(o) ==
    /\ ride_name = o.ride_name
    /\ price = o.price
    /\ voo_price = o.voo_price
    /\ fare_locals = o.fare_locals
    /\ st_error = o.st_error
    /\ st_success = o.st_success
    /\ exception = o.exception
    /\ predict_calls = o.predict_calls
    /\ loads_run = o.loads_run

\* The first run of a session: no button is pressed.
FirstRun(rw, vw, files, cabc, ridec) ==
    /\ button = "none"
    /\ ride_widgets = rw
    /\ voo_widgets = vw
    /\ present = files
    /\ run_files = files
    /\ cab_classes = cabc
    /\ ride_classes = ridec
    /\ Left(RunOutcome("none", rw, vw, files, files, cabc, ridec))
    /\ loaded_before = {}

\* Line 102: the Predict Price button.  A file may be removed between the
\* start of the script and the loads of lines 31-33.
PredictPrice ==
    \E visible \in SUBSET present :
        Run("predict", ride_widgets, voo_widgets, visible)

\* Line 145: the Calculate Voo Fare button.
CalculateVooFare == Run("calc", ride_widgets, voo_widgets, present)

\* Line 93: another cab type is selected.
SelectCabType ==
    \E c \in CabTypes \ {ride_widgets.cab_type} :
        Run("none", [ride_widgets EXCEPT !.cab_type = c], voo_widgets, present)

\* Line 88: another ride type is selected among the encoder's classes_.
SelectRideType ==
    /\ ride_name # None
    /\ \E r \in Range(ride_classes) \ {ride_widgets.ride_sel} :
           Run("none", [ride_widgets EXCEPT !.ride_sel = r], voo_widgets,
               present)

\* Lines 115, 116, 118: the trip widgets of the calculator are edited.
SetDistanceVoo ==
    \E d \in DistanceValues \ {voo_widgets.distance_voo} :
        Run("none", ride_widgets, [voo_widgets EXCEPT !.distance_voo = d],
            present)

SetDurationVoo ==
    \E t \in DurationValues \ {voo_widgets.duration_voo} :
        Run("none", ride_widgets, [voo_widgets EXCEPT !.duration_voo = t],
            present)

ToggleRainVoo ==
    Run("none", ride_widgets,
        [voo_widgets EXCEPT !.rain_voo = ~voo_widgets.rain_voo], present)

\* The storage, outside the program: an artifact file is removed or put
\* back between two runs.
RemoveArtifact ==
    /\ \E a \in present : present' = present \ {a}
    /\ UNCHANGED << run_files, cab_classes, ride_classes, ride_widgets, voo_widgets,
                    button, ride_name, price, voo_price, fare_locals,
                    st_error, st_success, exception, predict_calls,
                    loads_run, loaded_before >>

RestoreArtifact ==
    /\ \E a \in Artifacts \ present : present' = present \cup {a}
    /\ UNCHANGED << run_files, cab_classes, ride_classes, ride_widgets, voo_widgets,
                    button, ride_name, price, voo_price, fare_locals,
                    st_error, st_success, exception, predict_calls,
                    loads_run, loaded_before >>

\* A session of the page: the predictor widgets hold any of the modelled
\* values, the calculator its defaults, and the storage any of the files.
Init ==
    \E rp \in RideProfiles, c \in CabTypes, files \in SUBSET Artifacts,
       cabc \in CabVocabularies, ridec \in RideVocabularies :
        \E r \in Range(ridec) :
            FirstRun(rp @@ [cab_type |-> c, ride_sel |-> r], VooDefaults,
                     files, cabc, ridec)

Next ==
    \/ PredictPrice
    \/ CalculateVooFare
    \/ SelectCabType
    \/ SelectRideType
    \/ RemoveArtifact
    \/ RestoreArtifact

Spec == Init /\ [][Next]_vars

\* The calculator alone: its widgets hold any of the modelled values, the
\* predictor its defaults, and every file is on storage.
FareInit ==
    \E vw \in VooSpace :
        FirstRun(RideDefaults @@ [cab_type |-> "Uber", ride_sel |-> "Black"],
                 vw, Artifacts, << "Lyft", "Uber" >>,
                 << "Black", "Shared", "UberX" >>)

FareNext ==
    \/ CalculateVooFare
    \/ SetDistanceVoo
    \/ SetDurationVoo
    \/ ToggleRainVoo

FareSpec == FareInit /\ [][FareNext]_vars

---------------------------------------------------------------------------
(* The claims about calculate_fare, checked under FareSpec.                *)

\* The arguments of the latest calculate_fare call.
LastArgs == VooArgs(voo_widgets)

\* The run was triggered by the Calculate Voo Fare button.
Calculated == button = "calc" /\ fare_locals.called

\* surge_multiplier = 1 and the seven coefficients are 0.
BasicForm(a) ==
    /\ a.surge_multiplier = One
    /\ a.temp_factor = Zero /\ a.humidity_factor = Zero
    /\ a.clouds_factor = Zero /\ a.wind_factor = Zero
    /\ a.pressure_factor = Zero /\ a.pickup_factor = Zero
    /\ a.rain_factor = Zero

\* base_fare + waiting_time_rate*duration + distance*distance_rate.
MeteredFare(a) ==
    RAdd(RAdd(a.base_fare, RMul(a.waiting_time_rate, a.duration)),
         RMul(a.distance, a.distance_rate))

\* 1 + (value - ref) * factor.
Multiplier(value, ref, factor) ==
    RAdd(One, RMul(RSub(value, FromInt(ref)), factor))

\* C1: the fare returned is round(T + booking_fee, 2), where T starts from
\* max(base_fare + waiting_time_rate*duration + distance*distance_rate,
\* minimum_fare) and is multiplied, in this order, by the surge multiplier,
\* by (1 + rain_factor) only when rain is true, and by the six deviation
\* multipliers; the booking fee is added last and is never multiplied.
C1_FareFormula ==
    Calculated =>
        LET a  == LastArgs
            m0 == RMax(MeteredFare(a), a.minimum_fare)
            m1 == RMul(m0, a.surge_multiplier)
            m2 == IF a.rain THEN RMul(m1, RAdd(One, a.rain_factor)) ELSE m1
            m3 == RMul(m2, Multiplier(a.temp, 25, a.temp_factor))
            m4 == RMul(m3, Multiplier(a.humidity, 50, a.humidity_factor))
            m5 == RMul(m4, Multiplier(a.clouds, 50, a.clouds_factor))
            m6 == RMul(m5, Multiplier(a.wind, 10, a.wind_factor))
            m7 == RMul(m6, Multiplier(a.pressure, 1013, a.pressure_factor))
            T  == RMul(m7, Multiplier(a.pickup_hour_counts, 50, a.pickup_factor))
        IN  /\ fare_locals.trip_fare = T
            /\ fare_locals.grand_total = RAdd(T, a.booking_fee)
            /\ voo_price = Float(Round2(RAdd(T, a.booking_fee)))

\* A fare was calculated in the rain, under surge, with two dimensions off
\* their reference points, the default coefficients and a booking fee.
C1_Witness ==
    /\ Calculated
    /\ voo_widgets.rain_voo
    /\ voo_widgets.surge_multiplier_voo = FromInt(2)
    /\ voo_widgets.temp_voo = FromInt(50)
    /\ voo_widgets.pressure_voo = FromInt(1063)
    /\ voo_widgets.temp_factor = R(24, 1000)
    /\ voo_widgets.booking_fee = R(202, 100)
    /\ fare_locals.trip_fare # Zero

\* C2: with surge_multiplier = 1 and the seven coefficients 0 the fare is
\* the basic form round(max(base_fare + waiting_time_rate*duration +
\* distance*distance_rate, minimum_fare) + booking_fee, 2), whatever the
\* rain flag, the weather and the pickup count; with the default rates it
\* is round(max(2.45 + 0.17*t + 0.73*d, 5.0) + 2.02, 2).
C2_BasicFormEquivalence ==
    (Calculated /\ BasicForm(LastArgs)) =>
        LET a == LastArgs
        IN  /\ voo_price =
                   Float(Round2(RAdd(RMax(MeteredFare(a), a.minimum_fare),
                                     a.booking_fee)))
            /\ (\A k \in DOMAIN DefaultRates : a[k] = DefaultRates[k]) =>
                   voo_price =
                       Float(Round2(RAdd(
                           RMax(RAdd(RAdd(R(245, 100),
                                          RMul(R(17, 100), a.duration)),
                                     RMul(R(73, 100), a.distance)),
                                FromInt(5)),
                           R(202, 100))))

\* A basic-form fare was calculated in the rain, off the reference
\* temperature, with the default rates.
C2_Witness ==
    /\ Calculated
    /\ BasicForm(LastArgs)
    /\ voo_widgets.rain_voo
    /\ voo_widgets.temp_voo = FromInt(50)
    /\ voo_widgets.base_fare = R(245, 100)
    /\ voo_widgets.distance_voo = FromInt(10)

\* C6: in the basic form, with the rates held fixed, the fare at a
\* distance and duration no larger is no larger, and the fare at a
\* distance and duration no smaller is no smaller.
C6_Monotone ==
    (Calculated /\ BasicForm(LastArgs)) =>
        \A d \in DistanceValues, t \in DurationValues :
            LET a == LastArgs
                b == [a EXCEPT !.distance = d, !.duration = t]
            IN  /\ (RLe(a.distance, d) /\ RLe(a.duration, t)) =>
                       RLe(voo_price.val, calculate_fare(b))
                /\ (RLe(d, a.distance) /\ RLe(t, a.duration)) =>
                       RLe(calculate_fare(b), voo_price.val)

\* A basic-form fare was calculated for the shortest trip, and the fare of
\* a longer trip at the same rates is strictly larger.
C6_Witness ==
    /\ Calculated
    /\ BasicForm(LastArgs)
    /\ voo_widgets.distance_voo = R(1, 10)
    /\ voo_widgets.duration_voo = FromInt(1)
    /\ RLt(voo_price.val,
           calculate_fare([LastArgs EXCEPT !.distance = FromInt(10),
                                           !.duration = FromInt(15)]))

\* The rain factors of the modelled coefficient profiles.
RainFactorValues == {f.rain_factor : f \in FactorProfiles}

\* C7: with rain_factor = -0.017 the trip fare before the booking fee is,
\* with rain, exactly 983/1000 of what it is without rain, all else equal;
\* the booking fee added is the same with and without rain; and without
\* rain the value of rain_factor does not change the result.
C7_RainDiscount ==
    Calculated =>
        LET a   == LastArgs
            wet == [a EXCEPT !.rain = TRUE]
            dry == [a EXCEPT !.rain = FALSE]
        IN  /\ a.rain_factor = R(-17, 1000) =>
                /\ a.rain =>
                       fare_locals.trip_fare = RMul(R(983, 1000), TripFare(dry))
                /\ ~a.rain =>
                       TripFare(wet) = RMul(R(983, 1000), fare_locals.trip_fare)
                /\ RSub(GrandTotal(wet), TripFare(wet)) = a.booking_fee
                /\ RSub(GrandTotal(dry), TripFare(dry)) = a.booking_fee
            /\ ~a.rain =>
                \A rf \in RainFactorValues :
                    voo_price.val = calculate_fare([a EXCEPT !.rain_factor = rf])

\* A fare was calculated in the rain with rain_factor = -0.017.
C7_Witness ==
    /\ Calculated
    /\ voo_widgets.rain_voo
    /\ voo_widgets.rain_factor = R(-17, 1000)
    /\ voo_widgets.booking_fee # Zero
    /\ fare_locals.trip_fare # Zero

\* C8: in the basic form, when base_fare + waiting_time_rate*duration +
\* distance*distance_rate <= minimum_fare the fare is
\* round(minimum_fare + booking_fee, 2), and it is never below that; for
\* d = 0.1, t = 1 with the default rates it is 7.02.
C8_MinimumFloor ==
    (Calculated /\ BasicForm(LastArgs)) =>
        LET a     == LastArgs
            floor == Round2(RAdd(a.minimum_fare, a.booking_fee))
        IN  /\ RLe(MeteredFare(a), a.minimum_fare) => voo_price.val = floor
            /\ RLe(floor, voo_price.val)
            /\ (/\ a.distance = R(1, 10)
                /\ a.duration = FromInt(1)
                /\ \A k \in DOMAIN DefaultRates : a[k] = DefaultRates[k]) =>
                   voo_price.val = R(702, 100)

\* The basic-form fare of d = 0.1, t = 1 at the default rates was
\* calculated: the metered fare 2.693 is below the minimum fare.
C8_Witness ==
    /\ Calculated
    /\ BasicForm(LastArgs)
    /\ voo_widgets.distance_voo = R(1, 10)
    /\ voo_widgets.duration_voo = FromInt(1)
    /\ voo_widgets.minimum_fare = FromInt(5)
    /\ voo_widgets.booking_fee = R(202, 100)
    /\ RLt(MeteredFare(LastArgs), LastArgs.minimum_fare)

\* Widget values inside the ranges of lines 115-143 whose total is below
\* minimum_fare + booking_fee and not negative: the shortest trip in the
\* rain, everything else at its default.
DiscountedInput ==
    [VooDefaults EXCEPT !.distance_voo = R(1, 10), !.rain_voo = TRUE]

\* Widget values inside the ranges whose total is negative: the defaults
\* but for a pressure of 1100 hPa, the upper end of its range.
NegativeInput == [VooDefaults EXCEPT !.pressure_voo = FromInt(1100)]

\* C10: no floor is applied after the initial max.  A trip fare that the
\* multipliers bring below the minimum fare is returned as it is, plus the
\* booking fee; inside the widget ranges there are inputs whose total is
\* below minimum_fare + booking_fee, and inputs whose total is negative.
C10_NoFloorAfterAdjustments ==
    /\ Calculated =>
           LET a == LastArgs
           IN  /\ RLt(fare_locals.trip_fare, a.minimum_fare) =>
                   /\ voo_price.val =
                          Round2(RAdd(fare_locals.trip_fare, a.booking_fee))
                   /\ RLe(voo_price.val,
                          Round2(RAdd(a.minimum_fare, a.booking_fee)))
               /\ RLe(RAdd(fare_locals.trip_fare, a.booking_fee), R(-1, 100)) =>
                      RLt(voo_price.val, Zero)
    /\ InVooRanges(DiscountedInput)
    /\ RLe(Zero, calculate_fare(VooArgs(DiscountedInput)))
    /\ RLt(calculate_fare(VooArgs(DiscountedInput)),
           RAdd(DiscountedInput.minimum_fare, DiscountedInput.booking_fee))
    /\ InVooRanges(NegativeInput)
    /\ RLt(calculate_fare(VooArgs(NegativeInput)), Zero)

\* A fare was calculated from widget values inside their ranges, with
\* surge >= 1 and no negative rate, and the total shown is negative.
C10_Witness ==
    /\ Calculated
    /\ InVooRanges(voo_widgets)
    /\ RLt(voo_price.val, Zero)
    /\ RLt(voo_price.val,
           RAdd(voo_widgets.minimum_fare, voo_widgets.booking_fee))

---------------------------------------------------------------------------
(* The claims about the Predict Price action, checked under Spec.          *)

\* The run was triggered by the Predict Price button.
Predicted == button = "predict"

\* The messages of st_success that show a predicted price.
PricesShown == {i \in DOMAIN st_success : st_success[i].label = "Predicted Price"}

\* C3: when any of the three artifacts is absent as the Predict Price
\* action runs, no price results (load_model_and_predict returns None, or
\* is not called when the ride encoder was absent at the start of the
\* script), an error message is shown, no predicted price is shown and no
\* exception escapes.
C3_MissingArtifact ==
    (Predicted /\ run_files # Artifacts) =>
        /\ price.kind # "float"
        /\ ride_name # None => price = NoneValue
        /\ Len(st_error) >= 1
        /\ PricesShown = {}
        /\ predict_calls = << >>
        /\ exception = "none"

\* Predict Price ran with only the cab-type encoder absent:
\* load_model_and_predict was called and returned None.
C3_Witness ==
    /\ Predicted
    /\ run_files = Artifacts \ {CabEncoderFile}
    /\ ride_name # None
    /\ price = NoneValue
    /\ st_error = << ErrFilesMissing >>

\* C4: when the cab-type or ride-name label is not in its encoder's
\* vocabulary, the failure is shown to the user as a message, no
\* prediction is produced and no exception escapes the Predict Price
\* action.
C4_UnknownCategory ==
    (/\ Predicted
     /\ run_files = Artifacts
     /\ ride_name # None
     /\ \/ ride_widgets.cab_type \notin Range(cab_classes)
        \/ ride_name \notin Range(ride_classes)) =>
        /\ exception = "none"
        /\ price.kind # "float"
        /\ PricesShown = {}
        /\ Len(st_error) >= 1

\* The 0-based place of a label in a vocabulary.
CodeOf(classes, label) ==
    FromInt((CHOOSE i \in 1..Len(classes) : classes[i] = label) - 1)

\* C5: a prediction that succeeds invoked the model exactly once, with one
\* sample of exactly 13 features in the order distance, cab-type code,
\* surge multiplier, ride-name code, temperature, clouds, pressure, rain as
\* 0/1, humidity, wind, pickup-hour count, hour, day; the cab-type code
\* comes from the cab encoder and the ride-name code from the ride encoder;
\* and the value returned is the model's output, not rounded.
C5_FeatureVector ==
    (Predicted /\ price.kind = "float") =>
        LET w == ride_widgets
        IN  /\ Len(predict_calls) = 1
            /\ Len(predict_calls[1]) = 1
            /\ Len(predict_calls[1][1]) = 13
            /\ predict_calls[1][1] =
                   << w.distance, CodeOf(cab_classes, w.cab_type),
                      w.surge_multiplier, CodeOf(ride_classes, ride_name),
                      w.temp, w.clouds, w.pressure,
                      IF w.rain THEN FromInt(1) ELSE FromInt(0),
                      w.humidity, w.wind, w.pickup_hour_counts, w.hour, w.day >>
            /\ price.val = RfModel(predict_calls[1])[1]
            /\ st_success = << [label |-> "Predicted Price",
                                amount |-> Round2(price.val)] >>

\* A prediction succeeded in the rain with different cab-type and
\* ride-name codes, and the value returned has more than two decimals.
C5_Witness ==
    /\ Predicted
    /\ price.kind = "float"
    /\ ride_widgets.rain
    /\ ride_widgets.cab_type = "Uber"
    /\ ride_name = "Black"
    /\ price.val # Round2(price.val)

\* The number of times artifact a is in the sequence of loads.
Count(a, loads) == Cardinality({i \in DOMAIN loads : loads[i] = a})

LoadsOfRun ==
    /\ \A a \in Artifacts : Count(a, loads_run) <= (IF a = RideEncoderFile THEN 2 ELSE 1)
    /\ ~Predicted => loads_run \in {<< >>, << RideEncoderFile >>}
    /\ (Predicted /\ run_files = Artifacts /\ ride_name # None) =>
           loads_run = << RideEncoderFile, ModelFile, CabEncoderFile,
                          RideEncoderFile >>
    /\ Range(loads_run) \subseteq Artifacts

===========================================================================
